---- MODULE Spec2Model ----
(***************************************************************************)
(* A model of the keg command surface (src/cmd.go) and of the index       *)
(* subsystem ("dex") it drives.  The file system of one keg directory,    *)
(* the process environment and the persisted var are the state; every     *)
(* command handler is one action.                                          *)
(*                                                                         *)
(* Strings are tuples of one-character strings, so that strconv.Atoi,      *)
(* strconv.Itoa, strings.ToLower and substring search are computed and     *)
(* not assumed.                                                            *)
(***************************************************************************)
EXTENDS Integers, Sequences, FiniteSets, TLC

VARIABLES
  nodes,      \* NodeStore: directory name -> NoDir | [doc, mtime]
  artA,       \* dex/latest.md: Missing | sequence of lines
  artB,       \* dex/nodes.tsv: Missing | sequence of rows
  kegFile,    \* whether the file `keg` exists in the keg directory
  now,        \* file system clock (source of modification times)
  highID,     \* highest node ID ever assigned in the keg
  assigned,   \* history: the IDs handed out by create, in order, each with
              \* whether an ID handed out earlier had been freed by then
  env,        \* value of the KEG_CURRENT environment variable
  cwd,        \* current working directory
  curVar,     \* the persisted `current` var
  faults,     \* how many steps have failed so far
  last        \* the last command run: its arguments, steps and result

vars == <<nodes, artA, artB, kegFile, now, highID, assigned, env, cwd, curVar, faults, last>>

----------------------------------------------------------------------------
(* Bounds *)

MaxID == 2
MaxTime == 1
MaxFaults == 1
\* the latest modification time of a node found in a keg that is already there
MaxStamp == 2

----------------------------------------------------------------------------
(* Strings *)

Digits == <<"0", "1", "2", "3", "4", "5", "6", "7", "8", "9">>

IsDigit(c) == \E i \in 1..10 : Digits[i] = c

DigitVal(c) == CHOOSE i \in 0..9 : Digits[i + 1] = c

RECURSIVE DigitsVal(_)
DigitsVal(s) ==
  IF Len(s) = 0 THEN 0
  ELSE 10 * DigitsVal(SubSeq(s, 1, Len(s) - 1)) + DigitVal(s[Len(s)])

\* strconv.Atoi: an optional sign followed by one or more decimal digits.
Atoi(s) ==
  LET signed == Len(s) > 0 /\ s[1] \in {"+", "-"}
      body   == IF signed THEN Tail(s) ELSE s
  IN  IF Len(body) > 0 /\ \A i \in 1..Len(body) : IsDigit(body[i])
      THEN [ok |-> TRUE,
            n  |-> IF signed /\ s[1] = "-" THEN 0 - DigitsVal(body) ELSE DigitsVal(body)]
      ELSE [ok |-> FALSE, n |-> 0]

RECURSIVE NatStr(_)
NatStr(n) == IF n < 10 THEN <<Digits[n + 1]>> ELSE NatStr(n \div 10) \o <<Digits[(n % 10) + 1]>>

\* strconv.Itoa
Itoa(n) == IF n < 0 THEN <<"-">> \o NatStr(0 - n) ELSE NatStr(n)

\* strings.ToLower on the alphabet of the model
LowerChar(c) ==
  CASE c = "A" -> "a"
    [] c = "B" -> "b"
    [] c = "C" -> "c"
    [] OTHER   -> c

ToLower(s) == [i \in 1..Len(s) |-> LowerChar(s[i])]

\* strings.Contains
Contains(s, sub) ==
  \E i \in 0..(Len(s) - Len(sub)) : SubSeq(s, i + 1, i + Len(sub)) = sub

\* strings.Join(args, " ")
RECURSIVE Join(_)
Join(args) ==
  IF Len(args) = 0 THEN <<>>
  ELSE IF Len(args) = 1 THEN args[1]
  ELSE args[1] \o <<" ">> \o Join(Tail(args))

LAST == <<"l", "a", "s", "t">>
SAMPLE == <<"s", "a", "m", "p", "l", "e">>

----------------------------------------------------------------------------
(* Data model: nodes, the Dex and its two artifacts *)

Titles == {<<"A", "b">>, <<"b", "a">>}

\* title of the zero node written by init, and of the sample written by create
ZeroTitle == <<"A", "b">>
SampleTitle == <<"b", "a">>

AllTitles == Titles \cup {ZeroTitle, SampleTitle}

DirNames == {Itoa(n) : n \in 0..MaxID}

\* a directory that does not exist
NoDir == [dir |-> FALSE, empty |-> TRUE, title |-> <<>>, mtime |-> 0]

\* a node directory whose document is empty
EmptyNode(t) == [dir |-> TRUE, empty |-> TRUE, title |-> <<>>, mtime |-> t]

\* a node directory whose document has a first heading line
DocNode(title, t) == [dir |-> TRUE, empty |-> FALSE, title |-> title, mtime |-> t]

NoFile == [exists |-> FALSE, lines |-> <<>>]

File(lines) == [exists |-> TRUE, lines |-> lines]

DexEntry(n, u, t) == [N |-> n, U |-> u, T |-> t]

\* a *DexEntry: nil, or a pointer to an entry
Nil == [nil |-> TRUE, e |-> DexEntry(0, 0, <<>>)]

Ptr(e) == [nil |-> FALSE, e |-> e]

RECURSIVE InsertByUpdatedFirst(_, _)
InsertByUpdatedFirst(e, dex) ==
  IF Len(dex) = 0 THEN <<e>>
  ELSE IF Head(dex).U > e.U THEN <<Head(dex)>> \o InsertByUpdatedFirst(e, Tail(dex))
  ELSE <<e>> \o dex

\* places e behind every entry that is at least as recent: a stable descending sort
RECURSIVE InsertByUpdated(_, _)
InsertByUpdated(e, dex) ==
  IF Len(dex) = 0 THEN <<e>>
  ELSE IF Head(dex).U >= e.U THEN <<Head(dex)>> \o InsertByUpdated(e, Tail(dex))
  ELSE <<e>> \o dex

RECURSIVE SortByUpdated(_)
SortByUpdated(dex) ==
  IF Len(dex) = 0 THEN <<>>
  ELSE InsertByUpdated(dex[Len(dex)], SortByUpdated(SubSeq(dex, 1, Len(dex) - 1)))

\* the directory scan: sub-directories named by a non-negative integer, in
\* order, that hold a non-empty document
RECURSIVE ScanFrom(_, _)
ScanFrom(store, n) ==
  IF n > MaxID THEN <<>>
  ELSE LET name == Itoa(n)
           nd   == store[name]
           id   == Atoi(name)
       IN  (IF nd.dir /\ ~nd.empty /\ id.ok /\ id.n >= 0
            THEN <<DexEntry(id.n, nd.mtime, nd.title)>>
            ELSE <<>>) \o ScanFrom(store, n + 1)

\* DexBuilder.Build: one entry per node with a non-empty document, newest first
BuildDex(store) == SortByUpdated(ScanFrom(store, 0))

\* one line of dex/latest.md
RenderLine(e) == <<"*", e.U, "[", e.T, "](../", Itoa(e.N), ")">>

\* one row of dex/nodes.tsv
RenderRow(e) == <<Itoa(e.N), e.U, e.T>>

RenderLatest(dex) == [i \in 1..Len(dex) |-> RenderLine(dex[i])]

RenderNodes(dex) == [i \in 1..Len(dex) |-> RenderRow(dex[i])]

LineMatches(line) ==
  /\ Len(line) = 7
  /\ line[1] = "*"
  /\ line[3] = "["
  /\ line[5] = "](../"
  /\ line[7] = ")"
  /\ Atoi(line[6]).ok

RECURSIVE ParseDexUntilBad(_)
ParseDexUntilBad(lines) ==
  IF Len(lines) = 0 \/ ~LineMatches(Head(lines)) THEN <<>>
  ELSE <<DexEntry(Atoi(Head(lines)[6]).n, Head(lines)[2], Head(lines)[4])>>
         \o ParseDexUntilBad(Tail(lines))

\* DexStore.Parse: every line on its own, a line that does not match is skipped
RECURSIVE ParseDex(_)
ParseDex(lines) ==
  IF Len(lines) = 0 THEN <<>>
  ELSE (IF LineMatches(Head(lines))
        THEN <<DexEntry(Atoi(Head(lines)[6]).n, Head(lines)[2], Head(lines)[4])>>
        ELSE <<>>) \o ParseDex(Tail(lines))

\* DexStore.Read: artifact A parsed, an error when it is absent
ReadDex(a) ==
  IF a.exists THEN [ok |-> TRUE, dex |-> ParseDex(a.lines)]
  ELSE [ok |-> FALSE, dex |-> <<>>]

FileHeadAll(lines, n) == lines

\* file.Head: the first n lines
FileHead(lines, n) ==
  IF n <= 0 THEN <<>>
  ELSE IF n >= Len(lines) THEN lines
  ELSE SubSeq(lines, 1, n)

TitleHas(text, e) == Contains(ToLower(e.T), ToLower(text))

WithTitleTextExact(dex, text) == SelectSeq(dex, LAMBDA e : Contains(e.T, text))

\* DexQuery.FilterByTitleSubstring
WithTitleText(dex, text) == SelectSeq(dex, LAMBDA e : TitleHas(text, e))

\* DexQuery.Latest
Latest(dex, n) ==
  IF n <= 0 THEN <<>>
  ELSE IF n >= Len(dex) THEN dex
  ELSE SubSeq(dex, 1, n)

\* the answers the user can give to the numbered prompt over k choices: a
\* number, or 0 to abort
Answers(k) == 0..k

\* DexQuery.ChooseByTitleSubstring; sel is the user's answer if a prompt is shown
ChooseWithTitleText(dex, text, sel) ==
  LET hits == WithTitleText(dex, text)
  IN  IF Len(hits) = 1 THEN [choice |-> Ptr(hits[1]), prompted |-> FALSE]
      ELSE IF Len(hits) = 0 THEN [choice |-> Nil, prompted |-> FALSE]
      ELSE IF sel \in 1..Len(hits) THEN [choice |-> Ptr(hits[sel]), prompted |-> TRUE]
      ELSE [choice |-> Nil, prompted |-> TRUE]

\* DexQuery.Random; r is the number drawn
Random(dex, r) ==
  IF Len(dex) = 0 THEN Nil
  ELSE Ptr(dex[((r - 1) % Len(dex)) + 1])

\* Last: the most recently updated node, Latest(dex, 1) of the stored index
Last(a) ==
  LET rd == ReadDex(a)
  IN  IF rd.ok /\ Len(Latest(rd.dex, 1)) = 1 THEN Ptr(Latest(rd.dex, 1)[1]) ELSE Nil

----------------------------------------------------------------------------
(* Resolution of the current keg *)

\* paths are sequences of segments
KegDir == <<"/", "kb">>
OtherDir == <<"/", "home", "other">>
TmpDir == <<"/", "tmp">>
HomeDir == <<"/", "home">>

WorkDirs == {KegDir, OtherDir, TmpDir}

KegNames == {"", "main", "alt", "gone", "lost"}

\* the `map.NAME` entries of the configuration: a path, a path under ~, the
\* YAML null, or nothing
ConfMap(name) ==
  CASE name = "main" -> KegDir
    [] name = "alt"  -> <<"~", "other">>
    [] name = "gone" -> <<"null">>
    [] OTHER         -> <<>>

\* fs.Tilde2Home
Tilde2Home(dir) == IF Len(dir) > 0 /\ dir[1] = "~" THEN HomeDir \o Tail(dir) ELSE dir

\* filepath.Base
Base(dir) == IF Len(dir) = 0 THEN "." ELSE dir[Len(dir)]

\* fs.Exists(filepath.Join(dir, `keg`))
HasKegFile(dir, kf) ==
  IF dir = KegDir THEN kf ELSE dir = OtherDir

Local(path, name) == [ok |-> TRUE, Path |-> path, Name |-> name]

NoLocal == [ok |-> FALSE, Path |-> <<>>, Name |-> ""]

Mapped(name) == ~(ConfMap(name) = <<>> \/ ConfMap(name) = <<"null">>)

\* current: the environment variable, then the working directory, then the var
currentSkipCwd(e, wd, v, kf) ==
  IF Mapped(e) THEN Local(Tilde2Home(ConfMap(e)), e)
  ELSE IF v # "" /\ Mapped(v) THEN Local(Tilde2Home(ConfMap(v)), v)
  ELSE IF HasKegFile(wd, kf) THEN Local(wd, Base(wd))
  ELSE NoLocal

currentNoVar(e, wd, v, kf) ==
  IF Mapped(e) THEN Local(Tilde2Home(ConfMap(e)), e)
  ELSE IF HasKegFile(wd, kf) THEN Local(wd, Base(wd))
  ELSE NoLocal

current(e, wd, v, kf) ==
  IF Mapped(e) THEN Local(Tilde2Home(ConfMap(e)), e)
  ELSE IF HasKegFile(wd, kf) THEN Local(wd, Base(wd))
  ELSE IF v # "" /\ Mapped(v) THEN Local(Tilde2Home(ConfMap(v)), v)
  ELSE NoLocal

----------------------------------------------------------------------------
(* The record of the last command *)

NoOut == [name |-> "", path |-> <<>>, dex |-> <<>>, n |-> 0, title |-> <<>>]

Idle ==
  [cmd |-> "none", args |-> <<>>, res |-> "none", err |-> "", trace |-> <<>>,
   out |-> NoOut, prompted |-> FALSE, node |-> <<>>, tty |-> TRUE, left |-> "none"]

Step(op, ok) == [op |-> op, ok |-> ok]

\* a command that ended without touching anything
Ended(cmd, args, res, err, out) ==
  [cmd |-> cmd, args |-> args, res |-> res, err |-> err, trace |-> <<>>,
   out |-> out, prompted |-> FALSE, node |-> <<>>, tty |-> TRUE, left |-> "none"]

----------------------------------------------------------------------------
(* Initial state: an empty directory, with or without a keg file *)

Init ==
  /\ nodes = [d \in DirNames |-> NoDir]
  /\ artA = NoFile
  /\ artB = NoFile
  /\ kegFile \in BOOLEAN
  /\ now = 0
  /\ highID = 0
  /\ assigned = <<>>
  /\ env = ""
  /\ cwd = KegDir
  /\ curVar = ""
  /\ faults = 0
  /\ last = Idle

----------------------------------------------------------------------------
(* The environment *)

Setenv(name) ==
  /\ last = Idle
  /\ env # name
  /\ env' = name
  /\ UNCHANGED <<nodes, artA, artB, kegFile, now, highID, assigned, cwd, curVar, faults, last>>

Chdir(dir) ==
  /\ last = Idle
  /\ cwd # dir
  /\ cwd' = dir
  /\ UNCHANGED <<nodes, artA, artB, kegFile, now, highID, assigned, env, curVar, faults, last>>

VarSet(name) ==
  /\ last = Idle
  /\ curVar # name
  /\ curVar' = name
  /\ UNCHANGED <<nodes, artA, artB, kegFile, now, highID, assigned, env, cwd, faults, last>>

\* the process of the last command has exited: the shell is ready for the next
Exit ==
  /\ last # Idle
  /\ last' = Idle
  /\ UNCHANGED <<nodes, artA, artB, kegFile, now, highID, assigned, env, cwd, curVar, faults>>

Tick ==
  /\ last = Idle
  /\ now < MaxTime
  /\ now' = now + 1
  /\ UNCHANGED <<nodes, artA, artB, kegFile, highID, assigned, env, cwd, curVar, faults, last>>

----------------------------------------------------------------------------
(* Read-only commands *)

currentCmd ==
  LET keg == current(env, cwd, curVar, kegFile)
  IN  /\ last = Idle
      /\ last' = IF ~keg.ok
                 THEN Ended("current", <<>>, "error", "no kegs found", NoOut)
                 ELSE Ended("current", <<>>, "ok", "", [NoOut EXCEPT !.name = keg.Name])
      /\ UNCHANGED <<nodes, artA, artB, kegFile, now, highID, assigned, env, cwd, curVar, faults>>

----------------------------------------------------------------------------
(* The keg directory as a value, and the operations on it.  A fault names *)
(* the one step of a command that fails ("none": no step fails); a command *)
(* returns at its first error, so one name covers every run.               *)

World == [nodes |-> nodes, artA |-> artA, artB |-> artB, kegFile |-> kegFile,
          highID |-> highID, assigned |-> assigned]

DexFaults == {"writeA", "writeB"}

MakeDexOnlyA(w, fault) ==
  LET dex == BuildDex(w.nodes)
  IN  IF fault \in DexFaults THEN [w |-> w, ok |-> FALSE]
      ELSE [w |-> [w EXCEPT !.artA = File(RenderLatest(dex)),
                            !.artB = IF w.artB.exists THEN w.artB
                                     ELSE File(RenderNodes(dex))],
            ok |-> TRUE]

MakeDexBFirst(w, fault) ==
  LET dex == BuildDex(w.nodes)
  IN  IF fault = "writeA" THEN [w |-> [w EXCEPT !.artB = File(RenderNodes(dex))], ok |-> FALSE]
      ELSE IF fault = "writeB" THEN [w |-> w, ok |-> FALSE]
      ELSE [w |-> [w EXCEPT !.artA = File(RenderLatest(dex)),
                            !.artB = File(RenderNodes(dex))],
            ok |-> TRUE]

\* MakeDex: Build, then write artifact A, then artifact B, from one Dex
MakeDex(w, fault) ==
  LET dex == BuildDex(w.nodes)
  IN  IF fault = "writeA" THEN [w |-> w, ok |-> FALSE]
      ELSE IF fault = "writeB"
      THEN [w |-> [w EXCEPT !.artA = File(RenderLatest(dex))], ok |-> FALSE]
      ELSE [w |-> [w EXCEPT !.artA = File(RenderLatest(dex)),
                            !.artB = File(RenderNodes(dex))],
            ok |-> TRUE]

\* DexUpdate: the index brought up to date after the node of entry changed
DexUpdate(w, id, fault) == MakeDex(w, fault)

\* the ID MakeNode hands out: the next integer never used before
NextIDReuse(w) ==
  LET used == {n \in 0..MaxID : w.nodes[Itoa(n)].dir}
  IN  IF used = {} THEN 1 ELSE (CHOOSE n \in used : \A m \in used : m <= n) + 1

NextID(w) == w.highID + 1

\* MakeNode: a new node directory with a blank document
MakeNode(w, fault) ==
  LET id == NextID(w)
  IN  IF fault = "MakeNode" THEN [w |-> w, ok |-> FALSE, id |-> id]
      ELSE [w |-> [w EXCEPT !.nodes[Itoa(id)] = EmptyNode(now),
                            !.highID = id,
                            !.assigned = Append(w.assigned,
                                [id |-> id, afterFree |-> \E j \in 1..Len(w.assigned) :
                                                           ~w.nodes[Itoa(w.assigned[j].id)].dir])],
            ok |-> TRUE, id |-> id]

\* WriteSample: the sample document written into the new node
WriteSample(w, id, fault) ==
  IF fault = "WriteSample" THEN [w |-> w, ok |-> FALSE]
  ELSE [w |-> [w EXCEPT !.nodes[Itoa(id)] = DocNode(SampleTitle, now)], ok |-> TRUE]

\* what the user does in the editor: leaves the document as it is, empties
\* it, or saves it with a title
Keep == [kind |-> "keep", title |-> <<>>]
Empty == [kind |-> "empty", title |-> <<>>]
Save(t) == [kind |-> "doc", title |-> t]

Edits == {Keep, Empty} \cup {Save(t) : t \in Titles}

\* file.Edit on the document of node directory id
FileEdit(w, id, text, fault) ==
  IF fault = "file.Edit" THEN [w |-> w, ok |-> FALSE]
  ELSE [w |-> CASE text.kind = "keep"  -> w
                [] text.kind = "empty" -> [w EXCEPT !.nodes[id] = EmptyNode(now)]
                [] OTHER               -> [w EXCEPT !.nodes[id] = DocNode(text.title, now)],
        ok |-> TRUE]

\* os.RemoveAll: no error when the directory does not exist
RemoveAll(w, id, fault) ==
  IF fault = "RemoveAll" THEN [w |-> w, ok |-> FALSE]
  ELSE [w |-> IF id \in DirNames THEN [w EXCEPT !.nodes[id] = NoDir] ELSE w, ok |-> TRUE]

\* file.IsEmpty
IsEmpty(w, id) == w.nodes[id].empty

\* fs.Exists of the document of node directory id
DocExists(w, id) == id \in DirNames /\ w.nodes[id].dir

RemoveIfEmptyNever(w, id, fault) == [w |-> w, ok |-> TRUE, called |-> FALSE]

\* the end of an edit: the directory of a node left empty is removed
RemoveIfEmpty(w, id, fault) ==
  IF IsEmpty(w, id)
  THEN LET r == RemoveAll(w, id, fault) IN [w |-> r.w, ok |-> r.ok, called |-> TRUE]
  ELSE [w |-> w, ok |-> TRUE, called |-> FALSE]

\* Edit: the editor opened on node id; a node left empty is not retained
Edit(w, id, text, fault) ==
  LET e == FileEdit(w, Itoa(id), text, IF fault = "Edit" THEN "file.Edit" ELSE "none")
  IN  IF ~e.ok THEN [w |-> e.w, ok |-> FALSE, left |-> "none"]
      ELSE IF IsEmpty(e.w, Itoa(id))
      THEN [w |-> RemoveAll(e.w, Itoa(id), "none").w, ok |-> TRUE, left |-> "empty"]
      ELSE [w |-> e.w, ok |-> TRUE, left |-> "doc"]

----------------------------------------------------------------------------
(* Command handlers as functions of the keg directory and their inputs.    *)
(* Each returns the directory it leaves and the record of the run.         *)

Run(cmd, args, w, res, err, trace, out, prompted, node, tty) ==
  [w |-> w,
   last |-> [cmd |-> cmd, args |-> args, res |-> res, err |-> err, trace |-> trace,
             out |-> out, prompted |-> prompted, node |-> node, tty |-> tty,
             left |-> "none"]]

\* the run r, with what the editor left of the document: "empty" or "doc"
Left(r, d) == [r EXCEPT !.last.left = d]

DocLeft(w, id) == IF w.nodes[id].empty THEN "empty" ELSE "doc"

\* a run that ended before any step that writes
Stop(cmd, args, w, res, err) == Run(cmd, args, w, res, err, <<>>, NoOut, FALSE, <<>>, TRUE)

IndexAndPublishAnyway(w, trace, fault) ==
  LET d  == MakeDex(w, fault)
      t1 == Append(trace, Step("MakeDex", d.ok))
  IN  IF fault = "Publish"
      THEN [w |-> d.w, trace |-> Append(t1, Step("Publish", FALSE)), res |-> "error", err |-> "Publish"]
      ELSE [w |-> d.w, trace |-> Append(t1, Step("Publish", TRUE)),
            res |-> IF d.ok THEN "ok" ELSE "error", err |-> IF d.ok THEN "" ELSE "MakeDex"]

PublishWithoutIndex(w, trace, fault) ==
  IF fault = "Publish"
  THEN [w |-> w, trace |-> Append(trace, Step("Publish", FALSE)), res |-> "error", err |-> "Publish"]
  ELSE [w |-> w, trace |-> Append(trace, Step("Publish", TRUE)), res |-> "ok", err |-> ""]

\* the end of delete, edit and init: MakeDex, and Publish if it returned no error
IndexAndPublish(w, trace, fault) ==
  LET d  == MakeDex(w, fault)
      t1 == Append(trace, Step("MakeDex", d.ok))
  IN  IF ~d.ok THEN [w |-> d.w, trace |-> t1, res |-> "error", err |-> "MakeDex"]
      ELSE IF fault = "Publish"
      THEN [w |-> d.w, trace |-> Append(t1, Step("Publish", FALSE)), res |-> "error", err |-> "Publish"]
      ELSE [w |-> d.w, trace |-> Append(t1, Step("Publish", TRUE)), res |-> "ok", err |-> ""]

deleteCallNoAtoi(w, args, fault) ==
  LET keg == current(env, cwd, curVar, w.kegFile)
  IN  IF ~keg.ok THEN Stop("delete", args, w, "error", "no kegs found")
      ELSE IF Len(args) = 0 THEN Stop("delete", args, w, "panic", "index out of range")
      ELSE
        LET n  == Last(w.artA)
            id == IF args[1] = LAST /\ ~n.nil THEN Itoa(n.e.N) ELSE args[1]
            rm == RemoveAll(w, id, fault)
            t1 == <<Step("RemoveAll", rm.ok)>>
        IN  IF ~rm.ok
            THEN Run("delete", args, rm.w, "error", "RemoveAll", t1, NoOut, FALSE, id, TRUE)
            ELSE LET f == IndexAndPublish(rm.w, t1, fault)
                 IN  Run("delete", args, f.w, f.res, f.err, f.trace, NoOut, FALSE, id, TRUE)

deleteCallNoLast(w, args, fault) ==
  LET keg == current(env, cwd, curVar, w.kegFile)
  IN  IF ~keg.ok THEN Stop("delete", args, w, "error", "no kegs found")
      ELSE IF Len(args) = 0 THEN Stop("delete", args, w, "panic", "index out of range")
      ELSE
        LET id == args[1]
        IN  IF ~Atoi(id).ok THEN Stop("delete", args, w, "error", "usage")
            ELSE
              LET rm == RemoveAll(w, id, fault)
                  t1 == <<Step("RemoveAll", rm.ok)>>
              IN  IF ~rm.ok
                  THEN Run("delete", args, rm.w, "error", "RemoveAll", t1, NoOut, FALSE, id, TRUE)
                  ELSE LET f == IndexAndPublish(rm.w, t1, fault)
                       IN  Run("delete", args, f.w, f.res, f.err, f.trace, NoOut, FALSE, id, TRUE)

\* delete
deleteCall(w, args, fault) ==
  LET keg == current(env, cwd, curVar, w.kegFile)
  IN  IF ~keg.ok THEN Stop("delete", args, w, "error", "no kegs found")
      ELSE IF Len(args) = 0 THEN Stop("delete", args, w, "panic", "index out of range")
      ELSE
        LET n  == Last(w.artA)
            id == IF args[1] = LAST /\ ~n.nil THEN Itoa(n.e.N) ELSE args[1]
        IN  IF ~Atoi(id).ok THEN Stop("delete", args, w, "error", "usage")
            ELSE
              LET rm == RemoveAll(w, id, fault)
                  t1 == <<Step("RemoveAll", rm.ok)>>
              IN  IF ~rm.ok
                  THEN Run("delete", args, rm.w, "error", "RemoveAll", t1, NoOut, FALSE, id, TRUE)
                  ELSE LET f == IndexAndPublish(rm.w, t1, fault)
                       IN  Run("delete", args, f.w, f.res, f.err, f.trace, NoOut, FALSE, id, TRUE)

\* dex update
dexUpdateCall(w, fault) ==
  LET keg == current(env, cwd, curVar, w.kegFile)
      d   == MakeDex(w, fault)
  IN  IF ~keg.ok THEN Stop("dex update", <<>>, w, "error", "no kegs found")
      ELSE Run("dex update", <<>>, d.w, IF d.ok THEN "ok" ELSE "error",
               IF d.ok THEN "" ELSE "MakeDex", <<Step("MakeDex", d.ok)>>, NoOut,
               FALSE, <<>>, TRUE)

titleCallRebuild(cmd, w, args, tty) ==
  LET as  == IF Len(args) = 0 THEN <<(<<>>)>> ELSE args
      keg == current(env, cwd, curVar, w.kegFile)
      d   == MakeDex(w, "none")
      rd  == ReadDex(d.w.artA)
  IN  IF ~keg.ok THEN Stop(cmd, args, w, "error", "no kegs found")
      ELSE Run(cmd, args, d.w, "ok", "", <<Step("MakeDex", TRUE)>>,
               [NoOut EXCEPT !.dex = WithTitleText(rd.dex, Join(as))], FALSE, <<>>, tty)

\* titles
titleCall(cmd, w, args, tty) ==
  LET as  == IF Len(args) = 0 THEN <<(<<>>)>> ELSE args
      keg == current(env, cwd, curVar, w.kegFile)
      rd  == ReadDex(w.artA)
      end(res, err, out) == Run(cmd, args, w, res, err, <<>>, out, FALSE, <<>>, tty)
  IN  IF ~keg.ok THEN end("error", "no kegs found", NoOut)
      ELSE IF ~rd.ok THEN end("error", "dex/latest.md not found", NoOut)
      ELSE end("ok", "", [NoOut EXCEPT !.dex = WithTitleText(rd.dex, Join(as))])

\* dir
dirCall(w, args, sel) ==
  LET keg == current(env, cwd, curVar, w.kegFile)
      rd  == ReadDex(w.artA)
      ch  == ChooseWithTitleText(rd.dex, Join(args), sel)
  IN  IF ~keg.ok THEN Stop("dir", args, w, "error", "no kegs found")
      ELSE IF Len(args) = 0
      THEN Run("dir", args, w, "ok", "", <<>>, [NoOut EXCEPT !.path = keg.Path], FALSE, <<>>, TRUE)
      ELSE IF ~rd.ok THEN Stop("dir", args, w, "panic", "nil pointer dereference")
      ELSE IF ch.choice.nil
      THEN Run("dir", args, w, "panic", "nil pointer dereference", <<>>, NoOut, ch.prompted, <<>>, TRUE)
      ELSE Run("dir", args, w, "ok", "", <<>>,
               [NoOut EXCEPT !.path = keg.Path \o <<Itoa(ch.choice.e.N)>>],
               ch.prompted, Itoa(ch.choice.e.N), TRUE)

\* latest; def is the value of the `default` var, bad tells that ParseDex
\* returns an error
latestCall(w, args, def, tty, bad) ==
  LET given == IF Len(args) > 0 THEN args[1] ELSE def
      a     == Atoi(given)
      n     == IF Len(given) = 0 THEN 1 ELSE a.n
      keg   == current(env, cwd, curVar, w.kegFile)
      lines == FileHead(w.artA.lines, n)
  IN  IF (Len(args) > 0 \/ def # <<>>) /\ ~a.ok THEN Stop("latest", args, w, "error", "Atoi")
      ELSE IF ~keg.ok THEN Stop("latest", args, w, "error", "no kegs found")
      ELSE IF ~w.artA.exists
      THEN Stop("latest", args, w, "error", "dex/latest.md file does not exist")
      ELSE IF bad
      THEN Run("latest", args, w, "ok", "", <<Step("ParseDex", FALSE)>>,
               [NoOut EXCEPT !.n = n], FALSE, <<>>, tty)
      ELSE Run("latest", args, w, "ok", "", <<>>,
               [NoOut EXCEPT !.dex = ParseDex(lines), !.n = n], FALSE, <<>>, tty)


EditTargetUnchecked(cmd, w, args, tty, sel) ==
  LET keg == current(env, cwd, curVar, w.kegFile)
      n   == Last(w.artA)
      rd  == ReadDex(w.artA)
      ch  == ChooseWithTitleText(rd.dex, Join(args), sel)
      byTitle == args[1] # LAST /\ ~Atoi(args[1]).ok
      id  == IF args[1] = LAST THEN (IF ~n.nil THEN Itoa(n.e.N) ELSE args[1])
             ELSE IF byTitle THEN Itoa(ch.choice.e.N)
             ELSE args[1]
      no(run) == [go |-> FALSE, id |-> <<>>, prompted |-> run.last.prompted, run |-> run]
  IN  IF Len(args) = 0 THEN no(Stop(cmd, args, w, "ok", ""))
      ELSE IF ~tty THEN no(titleCall(cmd, w, args, tty))
      ELSE IF ~keg.ok THEN no(Stop(cmd, args, w, "error", "no kegs found"))
      ELSE IF byTitle /\ ~rd.ok THEN no(Stop(cmd, args, w, "error", "dex/latest.md not found"))
      ELSE IF byTitle /\ ch.choice.nil
      THEN no(Run(cmd, args, w, "error", "unable to choose a title", <<>>, NoOut,
                  ch.prompted, <<>>, tty))
      ELSE IF id \notin DirNames
      THEN no(Run(cmd, args, w, "error", "content node does not exist", <<>>, NoOut,
                  byTitle /\ ch.prompted, id, tty))
      ELSE [go |-> TRUE, id |-> id, prompted |-> byTitle /\ ch.prompted,
            run |-> Stop(cmd, args, w, "none", "")]

\* edit, up to the editor: the node the arguments name
EditTarget(cmd, w, args, tty, sel) ==
  LET keg == current(env, cwd, curVar, w.kegFile)
      n   == Last(w.artA)
      rd  == ReadDex(w.artA)
      ch  == ChooseWithTitleText(rd.dex, Join(args), sel)
      byTitle == args[1] # LAST /\ ~Atoi(args[1]).ok
      id  == IF args[1] = LAST THEN (IF ~n.nil THEN Itoa(n.e.N) ELSE args[1])
             ELSE IF byTitle THEN Itoa(ch.choice.e.N)
             ELSE args[1]
      no(run) == [go |-> FALSE, id |-> <<>>, prompted |-> run.last.prompted, run |-> run]
  IN  IF Len(args) = 0 THEN no(Stop(cmd, args, w, "ok", ""))
      ELSE IF ~tty THEN no(titleCall(cmd, w, args, tty))
      ELSE IF ~keg.ok THEN no(Stop(cmd, args, w, "error", "no kegs found"))
      ELSE IF byTitle /\ ~rd.ok THEN no(Stop(cmd, args, w, "error", "dex/latest.md not found"))
      ELSE IF byTitle /\ ch.choice.nil
      THEN no(Run(cmd, args, w, "error", "unable to choose a title", <<>>, NoOut,
                  ch.prompted, <<>>, tty))
      ELSE IF ~DocExists(w, id)
      THEN no(Run(cmd, args, w, "error", "content node does not exist", <<>>, NoOut,
                  byTitle /\ ch.prompted, id, tty))
      ELSE [go |-> TRUE, id |-> id, prompted |-> byTitle /\ ch.prompted,
            run |-> Stop(cmd, args, w, "none", "")]

\* edit, from the editor on
EditNode(cmd, w, args, id, prompted, text, fault) ==
  LET e  == FileEdit(w, id, text, fault)
      t1 == <<Step("file.Edit", e.ok)>>
  IN  IF ~e.ok THEN Run(cmd, args, e.w, "error", "file.Edit", t1, NoOut, prompted, id, TRUE)
      ELSE
        LET r  == RemoveIfEmpty(e.w, id, fault)
            t2 == IF r.called THEN Append(t1, Step("RemoveAll", r.ok)) ELSE t1
        IN  IF ~r.ok
            THEN Left(Run(cmd, args, r.w, "error", "RemoveAll", t2, NoOut, prompted, id, TRUE),
                      DocLeft(e.w, id))
            ELSE LET f == IndexAndPublish(r.w, t2, fault)
                 IN  Left(Run(cmd, args, f.w, f.res, f.err, f.trace, NoOut, prompted, id, TRUE),
                          DocLeft(e.w, id))

\* edit
editCall(cmd, w, args, tty, sel, text, fault) ==
  LET t == EditTarget(cmd, w, args, tty, sel)
  IN  IF t.go THEN EditNode(cmd, w, args, t.id, t.prompted, text, fault) ELSE t.run

\* create
createCall(w, args, text, fault) ==
  LET keg == current(env, cwd, curVar, w.kegFile)
      m   == MakeNode(w, fault)
      id  == Itoa(m.id)
      t1  == <<Step("MakeNode", m.ok)>>
      smp == Len(args) > 0 /\ args[1] = SAMPLE
      ws  == IF smp THEN WriteSample(m.w, m.id, fault) ELSE [w |-> m.w, ok |-> TRUE]
      t2  == IF smp THEN Append(t1, Step("WriteSample", ws.ok)) ELSE t1
      e   == Edit(ws.w, m.id, text, fault)
      t3  == Append(t2, Step("Edit", e.ok))
      d   == DexUpdate(e.w, m.id, fault)
      t4  == Append(t3, Step("DexUpdate", d.ok))
      end(w1, res, err, trace) ==
        Left(Run("create", args, w1, res, err, trace, NoOut, FALSE, id, TRUE),
             IF m.ok /\ ws.ok THEN e.left ELSE "none")
  IN  IF ~keg.ok THEN Stop("create", args, w, "error", "no kegs found")
      ELSE IF ~m.ok THEN end(m.w, "error", "MakeNode", t1)
      ELSE IF ~ws.ok THEN end(ws.w, "error", "WriteSample", t2)
      ELSE IF ~e.ok THEN end(e.w, "error", "Edit", t3)
      ELSE IF ~d.ok THEN end(d.w, "error", "DexUpdate", t4)
      ELSE IF fault = "Publish" THEN end(d.w, "error", "Publish", Append(t4, Step("Publish", FALSE)))
      ELSE end(d.w, "ok", "", Append(t4, Step("Publish", TRUE)))

\* init, run in the working directory
initCall(w, fault) ==
  LET new == ~HasKegFile(cwd, w.kegFile)
      w1  == IF new THEN [w EXCEPT !.kegFile = TRUE] ELSE w
      t1  == IF new THEN <<Step("Overwrite", fault # "Overwrite.keg")>> ELSE <<>>
      w2  == [w1 EXCEPT !.nodes[Itoa(0)] = DocNode(ZeroTitle, now)]
      t2  == Append(t1, Step("Overwrite", fault # "Overwrite.node"))
      t3  == Append(t2, Step("file.Edit", fault # "file.Edit"))
      end(wx, res, err, trace) == Run("init", <<>>, wx, res, err, trace, NoOut, FALSE, <<>>, TRUE)
  IN  IF new /\ fault = "Overwrite.keg" THEN end(w, "error", "Overwrite", t1)
      ELSE IF fault = "Overwrite.node" THEN end(w1, "error", "Overwrite", t2)
      ELSE IF fault = "file.Edit" THEN end(w2, "error", "file.Edit", t3)
      ELSE IF fault = "Getwd" THEN end(w2, "error", "Getwd", t3)
      ELSE LET f == IndexAndPublish(w2, t3, fault)
           IN  end(f.w, f.res, f.err, f.trace)

ID == <<"i", "d">>
TITLE == <<"t", "i", "t", "l", "e">>
DIR == <<"d", "i", "r">>
EDIT == <<"e", "d", "i", "t">>

\* random; r is the number drawn
randomCall(w, args, r, tty, sel, text, fault) ==
  LET as  == IF Len(args) = 0 THEN <<EDIT>> ELSE args
      keg == current(env, cwd, curVar, w.kegFile)
      rd  == ReadDex(w.artA)
      rnd == IF rd.ok THEN Random(rd.dex, r) ELSE Nil
      out(o) == Run("random", args, w, "ok", "", <<>>, o, FALSE, Itoa(rnd.e.N), TRUE)
  IN  IF ~keg.ok THEN Stop("random", args, w, "error", "no kegs found")
      ELSE IF rnd.nil THEN Stop("random", args, w, "panic", "nil pointer dereference")
      ELSE CASE as[1] = ID    -> out([NoOut EXCEPT !.n = rnd.e.N])
             [] as[1] = TITLE -> out([NoOut EXCEPT !.title = rnd.e.T])
             [] as[1] = DIR   -> out([NoOut EXCEPT !.path = <<Itoa(rnd.e.N)>>])
             [] OTHER         -> editCall("random", w, <<Itoa(rnd.e.N)>>, tty, sel, text, fault)

----------------------------------------------------------------------------
(* Arguments and inputs *)

IdArgs == {Itoa(n) : n \in 0..MaxID}

Words == {<<"a">>, <<"A", "B">>, <<"z">>}

One(S) == {<<s>> : s \in S}

DeleteArgs == {<<>>} \cup One(IdArgs \cup {LAST, <<"z">>})

EditArgs == {<<>>} \cup One(IdArgs \cup {LAST} \cup Words)

TitleArgs == {<<>>, <<(<<"a">>), (<<"b">>)>>} \cup One(Words)

DirArgs == {<<>>} \cup One(Words)

LatestArgs == {<<>>} \cup One({Itoa(n) : n \in 0..(MaxID + 1)} \cup {<<"-", "1">>, <<"z">>})

DefaultVars == {<<>>, <<"9">>, <<"z">>}

RandomArgs == {<<>>, <<ID>>, <<TITLE>>, <<DIR>>}

CreateArgs == {<<>>, <<SAMPLE>>}

DeleteFaults == {"none", "RemoveAll", "Publish"} \cup DexFaults

\* what happens in and after the editor: the user's edit and the step that
\* fails.  The editor's failure leaves the document alone, and RemoveAll is
\* reached only for an empty document.
EditSteps ==
  {[text |-> t, fault |-> f] : t \in Edits, f \in {"none", "Publish"} \cup DexFaults}
    \cup {[text |-> Keep, fault |-> "file.Edit"],
          [text |-> Empty, fault |-> "RemoveAll"],
          [text |-> Keep, fault |-> "RemoveAll"]}

NoEdit == {[text |-> Keep, fault |-> "none"]}

CreateFaults == {"none", "MakeNode", "WriteSample", "Edit", "Publish"} \cup DexFaults

InitFaults == {"none", "Overwrite.keg", "Overwrite.node", "file.Edit", "Getwd", "Publish"} \cup DexFaults

\* whether ParseDex may return an error: only on lines that MakeDex did not
\* write, where it skips the line or fails
ParseErrors(w, args, def) ==
  LET r == latestCall(w, args, def, TRUE, FALSE)
  IN  IF r.last.res = "ok"
         /\ \E i \in 1..Len(FileHead(w.artA.lines, r.last.out.n)) : ~LineMatches(w.artA.lines[i])
      THEN BOOLEAN ELSE {FALSE}

\* the answers that matter: none when no prompt is shown
AnswersFor(w, args) ==
  IF Len(args) > 0 /\ ReadDex(w.artA).ok
  THEN Answers(Len(WithTitleText(ReadDex(w.artA).dex, Join(args))))
  ELSE {0}

----------------------------------------------------------------------------
(* Actions: one per command *)

\* a run in which a step failed: its last step, or Getwd
Faulted(r) ==
  \/ r.last.err = "Getwd"
  \/ Len(r.last.trace) > 0 /\ ~r.last.trace[Len(r.last.trace)].ok

Becomes(r) ==
  /\ Faulted(r) => faults < MaxFaults
  /\ faults' = IF Faulted(r) THEN faults + 1 ELSE faults
  /\ nodes' = r.w.nodes
  /\ artA' = r.w.artA
  /\ artB' = r.w.artB
  /\ kegFile' = r.w.kegFile
  /\ highID' = r.w.highID
  /\ assigned' = r.w.assigned
  /\ last' = r.last
  /\ UNCHANGED <<now, env, cwd, curVar>>

dexUpdateCmd ==
  /\ last = Idle
  /\ \E fault \in {"none"} \cup DexFaults :
       \E run \in {dexUpdateCall(World, fault)} : Becomes(run)

titleCmd ==
  /\ last = Idle
  /\ \E args \in TitleArgs, tty \in BOOLEAN :
       \E run \in {titleCall("titles", World, args, tty)} : Becomes(run)

dirCmd ==
  /\ last = Idle
  /\ \E args \in DirArgs :
       \E sel \in AnswersFor(World, args) :
         \E run \in {dirCall(World, args, sel)} : Becomes(run)

dirCmdNoArgs ==
  /\ last = Idle
  /\ \E run \in {dirCall(World, <<>>, 0)} : Becomes(run)

latestCmd ==
  /\ last = Idle
  /\ \E args \in LatestArgs, tty \in BOOLEAN :
       \E def \in (IF Len(args) = 0 THEN DefaultVars ELSE {<<>>}) :
         \E bad \in ParseErrors(World, args, def) :
           \E run \in {latestCall(World, args, def, tty, bad)} : Becomes(run)

deleteCmd ==
  /\ last = Idle
  /\ \E args \in DeleteArgs :
       \E fault \in (IF deleteCall(World, args, "none").last.trace = <<>>
                     THEN {"none"} ELSE DeleteFaults) :
         \E run \in {deleteCall(World, args, fault)} : Becomes(run)

editCmd ==
  /\ last = Idle
  /\ \E args \in EditArgs, tty \in BOOLEAN :
       \E sel \in AnswersFor(World, args) :
         \E go \in {EditTarget("edit", World, args, tty, sel).go} :
           \E ed \in (IF go THEN EditSteps ELSE NoEdit) :
             \E run \in {editCall("edit", World, args, tty, sel, ed.text, ed.fault)} :
               Becomes(run)

createCmd ==
  /\ last = Idle
  /\ NextID(World) <= MaxID
  /\ \E args \in CreateArgs, text \in Edits, fault \in CreateFaults :
       \E run \in {createCall(World, args, text, fault)} : Becomes(run)

initCmd ==
  /\ last = Idle
  /\ \E fault \in InitFaults :
       \E run \in {initCall(World, fault)} : Becomes(run)

randomCmd ==
  /\ last = Idle
  /\ \E args \in RandomArgs :
       \E k \in {Len(ReadDex(artA).dex)} :
         \E edit \in {args = <<>> /\ k > 0} :
           \E r \in 1..(IF k = 0 THEN 1 ELSE k), tty \in (IF edit THEN BOOLEAN ELSE {TRUE}) :
             \E ed \in (IF edit /\ tty THEN EditSteps ELSE NoEdit) :
               \E run \in {randomCall(World, args, r, tty, 0, ed.text, ed.fault)} :
                 Becomes(run)

Next ==
  \/ Exit
  \/ Tick
  \/ currentCmd
  \/ dexUpdateCmd
  \/ titleCmd
  \/ dirCmd
  \/ latestCmd
  \/ deleteCmd
  \/ editCmd
  \/ createCmd
  \/ initCmd
  \/ randomCmd

Spec == Init /\ [][Next]_vars

\* the resolution of the current keg under every environment
NextCurrent ==
  \/ \E name \in KegNames : Setenv(name)
  \/ \E dir \in WorkDirs : Chdir(dir)
  \/ \E name \in KegNames : VarSet(name)
  \/ currentCmd
  \/ dirCmdNoArgs
  \/ Exit

SpecCurrent == Init /\ [][NextCurrent]_vars

\* a keg that is already there: node directories of any age, with an index
\* that is fresh, stale, torn between A and B, or edited by hand
Stamps == 0..MaxStamp

NodeStates ==
  {NoDir, EmptyNode(0)} \cup {DocNode(t, u) : t \in Titles, u \in Stamps}

Stores == [DirNames -> NodeStates]

\* earlier contents of the keg that an index may still describe
Snapshots(store) ==
  {store,
   [d \in DirNames |-> NoDir],
   [d \in DirNames |-> DocNode(ZeroTitle, 0)]}

\* a line of dex/latest.md that is not an entry
Heading == <<"#", "latest">>

IndexFiles(store) ==
  {[a |-> NoFile, b |-> NoFile]}
    \cup {[a |-> File(h \o RenderLatest(BuildDex(sa))), b |-> File(RenderNodes(BuildDex(sb)))] :
            h \in {<<>>, <<Heading>>}, sa \in Snapshots(store), sb \in Snapshots(store)}

InitIndex ==
  /\ nodes \in Stores
  /\ \E f \in IndexFiles(nodes) : artA = f.a /\ artB = f.b
  /\ kegFile = TRUE
  /\ now = MaxStamp
  /\ highID = MaxID
  /\ assigned = <<>>
  /\ env = ""
  /\ cwd = KegDir
  /\ curVar = ""
  /\ faults = 0
  /\ last = Idle

NextIndex ==
  \/ dexUpdateCmd
  \/ latestCmd
  \/ Exit

SpecIndex == InitIndex /\ [][NextIndex]_vars

----------------------------------------------------------------------------
(* Properties *)

Mutating == {"create", "edit", "delete", "init", "random"}

StoreOps == {"MakeNode", "WriteSample", "Edit", "file.Edit", "RemoveAll", "Overwrite"}

DexOps == {"MakeDex", "DexUpdate"}

\* the phase a step belongs to: the change of NodeStore, the index, Publish
Phase(op) == IF op \in StoreOps THEN 1 ELSE IF op \in DexOps THEN 2 ELSE 3

Resolved == current(env, cwd, curVar, kegFile).ok

\* the IDs of the entries of artifact A, and of the rows of artifact B
IndexA == ParseDex(artA.lines)

CountA(n) == Cardinality({i \in 1..Len(IndexA) : IndexA[i].N = n})

CountB(n) == Cardinality({i \in 1..Len(artB.lines) : artB.lines[i][1] = Itoa(n)})

Live(n) == nodes[Itoa(n)].dir /\ ~nodes[Itoa(n)].empty

\* an artifact that is not there holds no entry
IndexConsistent ==
  /\ \A n \in 0..MaxID :
       /\ CountA(n) = (IF Live(n) THEN 1 ELSE 0)
       /\ CountB(n) = (IF Live(n) THEN 1 ELSE 0)
  /\ Len(IndexA) = Len(artA.lines)
  /\ Len(artB.lines) = Len(artA.lines)

\* C1: in every run of a mutating command the steps come in the order
\* NodeStore change, index, Publish; Publish is called at most once, directly
\* after an index step that returned no error and with no failed step before
\* it; a run that returns success has gone through all three.
C1_ChangeIndexPublish ==
  LET t == last.trace
  IN  last.cmd \in Mutating =>
        /\ \A i, j \in 1..Len(t) : i < j => Phase(t[i].op) <= Phase(t[j].op)
        /\ Cardinality({i \in 1..Len(t) : t[i].op = "Publish"}) <= 1
        /\ \A i \in 1..Len(t) :
             t[i].op = "Publish" =>
               /\ i > 1
               /\ t[i - 1].op \in DexOps
               /\ \A j \in 1..(i - 1) : t[j].ok
        /\ (last.res = "ok" /\ Len(t) > 0) =>
             /\ Len(t) >= 3
             /\ t[1].op \in StoreOps
             /\ t[Len(t) - 1].op \in DexOps
             /\ t[Len(t)].op = "Publish"
             /\ \A i \in 1..Len(t) : t[i].ok
        /\ (last.res # "ok") => \A i \in 1..Len(t) : t[i].op = "Publish" => ~t[i].ok

\* a delete ran to the end, after an earlier command had been stopped by a
\* failed step
C1_Witness ==
  /\ last.cmd = "delete"
  /\ last.res = "ok"
  /\ Len(last.trace) = 3
  /\ last.trace[3] = Step("Publish", TRUE)
  /\ faults = 1

\* C2 as stated: whenever the last create, edit or delete returned success,
\* the index holds exactly one entry per node with a non-empty document.
C2_SuccessMeansConsistent ==
  (last.cmd \in {"create", "edit", "delete"} /\ last.res = "ok") => IndexConsistent

\* C2 amended: whenever the last create, edit or delete went through its
\* change of NodeStore and returned success, both artifacts hold exactly one
\* entry per node directory with a non-empty document and none for any other.
C2_ChangeMeansConsistent ==
  (last.cmd \in {"create", "edit", "delete"} /\ last.res = "ok" /\ Len(last.trace) > 0)
    => (artA.exists /\ artB.exists /\ IndexConsistent)

\* a delete that removed an indexed node from a store of three
C2_Witness ==
  /\ last.cmd = "delete"
  /\ last.res = "ok"
  /\ last.node = Itoa(2)
  /\ ~nodes[Itoa(2)].dir
  /\ Len(IndexA) = 2
  /\ Len(artB.lines) = 2
  /\ faults = 1

\* C3: in a command that opened the editor on a node, a document left empty
\* has its directory removed before any index step, and after a successful
\* run the node is neither in NodeStore nor in the index; a document left
\* non-empty keeps its directory.
C3_EmptyNodeRemoved ==
  LET t  == last.trace
      id == last.node
  IN  (last.cmd \in {"edit", "create", "random"} /\ last.left # "none") =>
        /\ (last.left = "empty" /\ \E i \in 1..Len(t) : t[i].op \in DexOps)
             => ~nodes[id].dir
        /\ (last.left = "empty" /\ last.res = "ok")
             => /\ ~nodes[id].dir
                /\ CountA(Atoi(id).n) = 0
                /\ CountB(Atoi(id).n) = 0
        /\ last.left = "doc" => (nodes[id].dir /\ ~nodes[id].empty)

\* an edit emptied a node that was in the index
C3_Witness ==
  /\ last.cmd = "edit"
  /\ last.left = "empty"
  /\ last.res = "ok"
  /\ last.trace[2] = Step("RemoveAll", TRUE)
  /\ ~nodes[last.node].dir

NeedsIndex ==
  \/ last.cmd \in {"titles", "latest", "random"}
  \/ last.cmd = "dir" /\ Len(last.args) > 0
  \/ /\ last.cmd = "edit"
     /\ Len(last.args) > 0
     /\ last.args[1] # LAST
     /\ ~Atoi(last.args[1]).ok

\* C5: a command that needs the index ends with an error when the keg cannot
\* be resolved or dex/latest.md is missing.
C5_NoIndexIsError ==
  (NeedsIndex /\ last.trace = <<>> /\ (~Resolved \/ ~artA.exists)) => last.res = "error"

\* C6: random on a keg whose index is empty ends without error and uses no node.
C6_RandomOnEmpty ==
  (last.cmd = "random" /\ last.trace = <<>> /\ Resolved /\ artA.exists /\ Len(IndexA) = 0)
    => (last.res = "ok" /\ last.node = <<>>)

\* C7: a title that matches nothing, or a prompt the user aborts, gives no
\* node: edit returns "unable to choose a title" and changes nothing, dir
\* ends without using a node; a single match is returned without a prompt.
C7_NoChoiceIsNoNode ==
  LET hits == WithTitleText(IndexA, Join(last.args))
      byTitle == Len(last.args) > 0 /\ last.args[1] # LAST /\ ~Atoi(last.args[1]).ok
  IN  /\ (last.cmd = "dir" /\ Len(last.args) > 0 /\ Resolved /\ artA.exists) =>
           /\ last.prompted = (Len(hits) > 1)
           /\ Len(hits) = 1 => (last.res = "ok" /\ last.node = Itoa(hits[1].N))
           /\ Len(hits) = 0 => (last.res # "panic" /\ last.node = <<>>)
           /\ last.node = <<>> => last.res # "panic"
      /\ (last.cmd = "edit" /\ last.tty /\ byTitle /\ last.trace = <<>>
            /\ Resolved /\ artA.exists /\ Len(hits) = 0) =>
           (last.res = "error" /\ last.err = "unable to choose a title")

\* C8: the current keg is the one the KEG_CURRENT environment variable maps
\* to; failing that, the working directory if it holds a keg file; failing
\* that, the one the `current` var maps to; and "no kegs found" results only
\* when none of the three is available.
C8_Precedence ==
  LET byEnv == Mapped(env)
      byCwd == HasKegFile(cwd, kegFile)
      byVar == curVar # "" /\ Mapped(curVar)
      name  == IF byEnv THEN env ELSE IF byCwd THEN Base(cwd) ELSE curVar
      path  == IF byEnv THEN Tilde2Home(ConfMap(env))
               ELSE IF byCwd THEN cwd
               ELSE Tilde2Home(ConfMap(curVar))
  IN  (last.cmd = "current" \/ (last.cmd = "dir" /\ last.args = <<>>)) =>
        IF byEnv \/ byCwd \/ byVar
        THEN /\ last.res = "ok"
             /\ last.cmd = "current" => last.out.name = name
             /\ last.cmd = "dir" => last.out.path = path
        ELSE last.res = "error" /\ last.err = "no kegs found"

\* the working directory holds a keg and beats a var that is set and mapped
C8_Witness ==
  /\ last.cmd = "current"
  /\ ~Mapped(env)
  /\ cwd = OtherDir
  /\ curVar = "main"
  /\ last.out.name = "other"

C10_LatestIsHead ==
  LET n   == last.out.n
      dex == IndexA
  IN  (last.cmd = "latest" /\ last.res = "ok") =>
        /\ Len(last.args) > 0 => n = Atoi(last.args[1]).n
        /\ n <= 0 => last.out.dex = <<>>
        /\ n > Len(dex) => last.out.dex = dex
        /\ (0 < n /\ n <= Len(dex)) =>
             /\ Len(last.out.dex) = n
             /\ \A i \in 1..n : last.out.dex[i] = dex[i]
        /\ last.out.dex = Latest(dex, n)

\* latest cut a longer index down to its head
C10_Witness ==
  /\ last.cmd = "latest"
  /\ last.res = "ok"
  /\ last.out.n = 2
  /\ Len(IndexA) = 3
  /\ Len(last.out.dex) = 2

\* the text occurs in the title at some offset, letter case apart
Occurs(text, title) ==
  \E off \in 0..Len(title) :
    /\ off + Len(text) <= Len(title)
    /\ \A j \in 1..Len(text) : LowerChar(title[off + j]) = LowerChar(text[j])

\* the positions of dex whose title holds the text
Hits(dex, text) == {i \in 1..Len(dex) : Occurs(text, dex[i].T)}

\* C11: titles prints exactly the entries of the index whose title contains
\* the text, letter case apart, in their order in the index: the k-th entry
\* printed is the k-th hit.  With no argument it prints the whole index, a
\* text in no title gives an empty Dex and no error.
C11_FilterByTitle ==
  (last.cmd = "titles" /\ last.res = "ok") =>
    LET text == Join(last.args)
        hits == Hits(IndexA, text)
        out  == last.out.dex
    IN  /\ Len(out) = Cardinality(hits)
        /\ \A k \in 1..Len(out) :
             \E i \in hits : /\ out[k] = IndexA[i]
                             /\ Cardinality({j \in hits : j < i}) = k - 1
        /\ last.args = <<>> => out = IndexA
        /\ hits = {} => out = <<>>

\* a text in capitals found in one of two titles, which has a small letter
C11_Witness ==
  /\ last.cmd = "titles"
  /\ last.res = "ok"
  /\ last.args = <<(<<"A", "B">>)>>
  /\ Len(IndexA) = 2
  /\ Len(last.out.dex) = 1
  /\ last.out.dex[1].T = <<"A", "b">>

IDs(dex) == [i \in 1..Len(dex) |-> dex[i].N]

\* newest first, entries of one age in the order of the scan
SortedStable(dex) ==
  \A i, j \in 1..Len(dex) :
    i < j => \/ dex[i].U > dex[j].U
             \/ dex[i].U = dex[j].U /\ dex[i].N < dex[j].N

Rebuilt ==
  /\ last.res = "ok"
  /\ \E i \in 1..Len(last.trace) : last.trace[i].op \in DexOps

\* C12: the Dex built from NodeStore, and the Dex parsed from artifact A, are
\* in non-increasing order of UpdatedAt with entries of equal UpdatedAt in
\* scan order; three nodes updated at t3 > t2 > t1 in the order first, third,
\* second build to [first, third, second]; after a rebuild the parsed index
\* is the built one.
C12_SortedNewestFirst ==
  LET built == BuildDex(nodes)
  IN  /\ SortedStable(built)
      /\ SortedStable(IndexA)
      /\ \A n \in 0..MaxID : Live(n) <=> \E i \in 1..Len(built) : built[i].N = n
      /\ (/\ \A n \in 0..2 : Live(n)
          /\ nodes[Itoa(0)].mtime = 2
          /\ nodes[Itoa(1)].mtime = 0
          /\ nodes[Itoa(2)].mtime = 1) =>
             SelectSeq(IDs(built), LAMBDA n : n <= 2) = <<0, 2, 1>>
      /\ Rebuilt => IndexA = built

\* a rebuild of three nodes updated in the order second, third, first, over
\* an index that listed them by ID
C12_Witness ==
  /\ last.cmd = "dex update"
  /\ last.res = "ok"
  /\ nodes[Itoa(0)].mtime = 2
  /\ nodes[Itoa(1)].mtime = 0
  /\ nodes[Itoa(2)].mtime = 1
  /\ SelectSeq(IDs(IndexA), LAMBDA n : n <= 2) = <<0, 2, 1>>

\* the entries the rows of artifact B stand for
RowsOf(b) == [i \in 1..Len(b.lines) |->
                DexEntry(Atoi(b.lines[i][1]).n, b.lines[i][2], b.lines[i][3])]

\* both artifacts are there and are renderings of the Dex dex
BothRender(a, b, dex) ==
  /\ a.exists
  /\ b.exists
  /\ Len(a.lines) = Len(dex)
  /\ ParseDex(a.lines) = dex
  /\ RowsOf(b) = dex

WriteDone == \E i \in 1..Len(last.trace) : last.trace[i].op \in DexOps /\ last.trace[i].ok

\* C13: after a Write that returned no error artifact A and artifact B hold
\* the same node IDs in the same order, entry by entry from one Dex; and
\* whenever a step changes artifact B, artifact A is, after that step, the
\* rendering of the Dex that B was rendered from.
C13_OneSnapshot ==
  /\ [](WriteDone => /\ IDs(IndexA) = IDs(RowsOf(artB))
                     /\ BothRender(artA, artB, IndexA))
  /\ [][artB' # artB => BothRender(artA', artB', BuildDex(nodes'))]_vars

\* a Write replaced an index whose two files listed different nodes
C13_Witness ==
  /\ last.cmd = "dex update"
  /\ last.res = "ok"
  /\ last.trace = <<Step("MakeDex", TRUE)>>
  /\ IDs(IndexA) = <<2, 0>>
  /\ IDs(RowsOf(artB)) = <<2, 0>>

\* C14: whatever the two artifacts held before - nothing, an older index, an
\* index torn between A and B, a line that is no entry - a dex update that
\* runs to its end leaves both equal to the rendering of the Dex built from
\* NodeStore as it is: one entry per node with a non-empty document, newest
\* first, and nothing else.
C14_RebuildRepairs ==
  (last.cmd = "dex update" /\ last.res = "ok") =>
    /\ artA = File(RenderLatest(BuildDex(nodes)))
    /\ artB = File(RenderNodes(BuildDex(nodes)))
    /\ IndexConsistent
    /\ SortedStable(IndexA)
    /\ \A i \in 1..Len(IndexA) :
         /\ IndexA[i].T = nodes[Itoa(IndexA[i].N)].title
         /\ IndexA[i].U = nodes[Itoa(IndexA[i].N)].mtime
         /\ RowsOf(artB)[i] = IndexA[i]

\* a complete rebuild of three nodes, after a run that a failure had stopped
C14_Witness ==
  /\ last.cmd = "dex update"
  /\ last.res = "ok"
  /\ faults = 1
  /\ Len(IndexA) = 3
  /\ artB = File(RenderNodes(BuildDex(nodes)))

Pairs(dex) == [i \in 1..Len(dex) |-> <<dex[i].N, dex[i].T>>]

\* the lines that are entries, in their order
Entries(lines) == SelectSeq(lines, LineMatches)

ReadOnlyStep ==
  /\ UNCHANGED <<nodes, artA, artB>>
  /\ \A i \in 1..Len(last'.trace) : last'.trace[i].op \notin StoreOps \cup DexOps \cup {"Publish"}

\* C16 as stated: every run of titles, latest, dir and random leaves
\* NodeStore and both artifacts as they were and calls neither the index
\* rebuild nor Publish.
C16_QueriesReadOnly ==
  [][last'.cmd \in {"titles", "latest", "dir", "random"} => ReadOnlyStep]_vars

\* C16 amended: every run of titles, latest and dir, and every run of random
\* with the argument id, title or dir, leaves NodeStore and both artifacts as
\* they were and calls neither the index rebuild nor Publish.
C16_QueriesButRandomEdit ==
  [][(\/ last'.cmd \in {"titles", "latest", "dir"}
      \/ last'.cmd = "random" /\ last'.args \in {<<ID>>, <<TITLE>>, <<DIR>>})
       => ReadOnlyStep]_vars

\* random id drew a node of an index of two and printed it
C16_Witness ==
  /\ last.cmd = "random"
  /\ last.args = <<ID>>
  /\ last.res = "ok"
  /\ last.node = Itoa(last.out.n)
  /\ Len(IndexA) = 2
  /\ last.trace = <<>>

ParseFailed == \E i \in 1..Len(last.trace) : last.trace[i] = Step("ParseDex", FALSE)

\* C17: a run of latest in which ParseDex returned an error ends with an
\* error and not with success and nothing printed.
C17_ParseErrorIsVisible ==
  (last.cmd = "latest" /\ ParseFailed) => (last.res = "error" /\ last.err # "")

\* no directory but that of node id differs between the two states
OnlyNode(id) == \A d \in DirNames : d # id => nodes'[d] = nodes[d]

NoChange ==
  /\ UNCHANGED <<nodes, artA, artB>>
  /\ last'.trace = <<>>

\* the first entry of the index is there and is id
FirstOfIndex(id) ==
  /\ artA.exists
  /\ Len(IndexA) > 0
  /\ id = Itoa(IndexA[1].N)
  /\ IndexA = BuildDex(nodes) =>
       \A n \in 0..MaxID : Live(n) => nodes[Itoa(n)].mtime <= nodes[id].mtime

\* C18: in a keg that is resolved, delete last and edit last work on the
\* node of the first entry of the index, which is the node updated last when
\* the index is up to date: delete last removes that directory and changes
\* no other; with no first entry delete last removes nothing and returns a
\* usage error, and edit last returns 'content node does not exist' without
\* a call of the editor.
C18_LastIsFirstOfIndex ==
  [][(Resolved /\ last'.args = <<LAST>> /\ (last'.cmd = "delete" \/ (last'.cmd = "edit" /\ last'.tty))) =>
       IF artA.exists /\ Len(IndexA) > 0
       THEN /\ FirstOfIndex(last'.node)
            /\ last'.cmd = "delete" =>
                 /\ OnlyNode(last'.node)
                 /\ last'.trace[1].op = "RemoveAll"
                 /\ last'.trace[1].ok => ~nodes'[last'.node].dir
            /\ (last'.cmd = "edit" /\ ~nodes[last'.node].dir) =>
                 (NoChange /\ last'.err = "content node does not exist")
       ELSE /\ NoChange
            /\ last'.res = "error"
            /\ last'.cmd = "delete" => last'.err = "usage"
            /\ last'.cmd = "edit" => last'.err = "content node does not exist"]_vars

\* delete last removed the node updated last and left an older one alone
C18_Witness ==
  /\ last.cmd = "delete"
  /\ last.args = <<LAST>>
  /\ last.res = "ok"
  /\ last.node = Itoa(1)
  /\ ~nodes[Itoa(1)].dir
  /\ nodes[Itoa(0)].dir
  /\ IDs(IndexA) = <<0>>

\* C19: delete with an argument that is no integer, and is not `last` with
\* a first entry in the index to stand for, changes nothing, calls neither
\* the rebuild nor Publish and returns an error, the usage error when the
\* keg is resolved; delete with an integer changes no directory but the one
\* of that name, which is gone once RemoveAll has returned.
C19_DeleteUsage ==
  [][(last'.cmd = "delete" /\ Len(last'.args) > 0) =>
       LET a == last'.args[1]
       IN  /\ (~Atoi(a).ok /\ ~(a = LAST /\ Len(IndexA) > 0)) =>
                /\ NoChange
                /\ last'.res = "error"
                /\ Resolved => last'.err = "usage"
           /\ Atoi(a).ok =>
                /\ OnlyNode(a)
                /\ Resolved =>
                     /\ last'.node = a
                     /\ last'.trace[1].op = "RemoveAll"
                     /\ (last'.trace[1].ok /\ a \in DirNames) => ~nodes'[a].dir]_vars

\* delete of a word was turned down in a keg with a node and an index
C19_Witness ==
  /\ last.cmd = "delete"
  /\ last.args = <<(<<"z">>)>>
  /\ last.err = "usage"
  /\ last.trace = <<>>
  /\ nodes[Itoa(1)].dir
  /\ Len(IndexA) = 2

\* C20: edit of an integer that names no node directory returns 'content
\* node does not exist' and changes nothing, with no call of the editor, the
\* rebuild or Publish; edit by a title that no entry holds returns 'unable to
\* choose a title', and every run that returns it changes nothing; edit run
\* without a terminal prints the titles that hold the text and changes
\* nothing.
C20_EditRefusals ==
  [][last'.cmd = "edit" =>
       LET args == last'.args
           text == Join(args)
           byID == Len(args) > 0 /\ Atoi(args[1]).ok
           byTitle == Len(args) > 0 /\ args[1] # LAST /\ ~Atoi(args[1]).ok
       IN  /\ (last'.tty /\ Resolved /\ byID /\ ~(args[1] \in DirNames /\ nodes[args[1]].dir)) =>
                /\ NoChange
                /\ last'.res = "error"
                /\ last'.err = "content node does not exist"
           /\ (last'.tty /\ Resolved /\ byTitle /\ artA.exists /\ Hits(IndexA, text) = {}) =>
                /\ last'.res = "error"
                /\ last'.err = "unable to choose a title"
           /\ last'.err = "unable to choose a title" =>
                /\ NoChange
                /\ last'.node = <<>>
                /\ Hits(IndexA, text) = {} \/ last'.prompted
           /\ (~last'.tty \/ Len(args) = 0) =>
                /\ NoChange
                /\ (last'.res = "ok" /\ Len(args) > 0) =>
                     /\ Len(last'.out.dex) = Cardinality(Hits(IndexA, text))
                     /\ \A k \in 1..Len(last'.out.dex) : Occurs(text, last'.out.dex[k].T)]_vars

\* edit 2 was turned down in a keg that holds node 0 and node 1 only
C20_Witness ==
  /\ last.cmd = "edit"
  /\ last.tty
  /\ last.args = <<Itoa(2)>>
  /\ last.err = "content node does not exist"
  /\ last.trace = <<>>
  /\ ~nodes[Itoa(2)].dir
  /\ IDs(IndexA) = <<1, 0>>

====
